---- MODULE Spec2Model ----
(***************************************************************************)
(* State-machine model of python-server/websocket_server.py: the shared    *)
(* connected_clients set, one handle_client coroutine per accepted         *)
(* connection, and the gather-based broadcast fan-out.  asyncio runs the   *)
(* coroutines cooperatively, so every action below is the code that runs   *)
(* between two await points of one coroutine (or of one send_to_client     *)
(* task), and the transport of a connection changes only in the            *)
(* environment actions Close and Break.  A call of websocket.send hands    *)
(* its payload to the transport when it is made (each connection delivers  *)
(* in the order of the calls) and returns or raises when the await ends.   *)
(***************************************************************************)
EXTENDS Integers, Sequences, FiniteSets, TLC

\* ---------------------------------------------------------------- bounds
NumClients == 2
MaxRecv == 2

Clients == 1..NumClients
\* `exclude=None` of broadcast, and "no connection"
None == 0

\* ------------------------------------------------------------- transport
\* State of a connection's transport as websocket.send and the frame
\* iterator see it: "none" before the accept, "open", "closed" (every send
\* raises ConnectionClosed) and "broken" (its I/O fails with an exception
\* other than ConnectionClosed).
TransportStates == {"none", "open", "closed", "broken"}

\* How the frame iterator of `async for` stops: it ends on a normal close,
\* raises ConnectionClosed on an abnormal close or a keepalive timeout
\* (ping_timeout), and raises another exception on a broken transport.
CloseCauses == {"normal", "abnormal", "timeout"}
StopCauses == CloseCauses \cup {"error"}

\* Outcome of `await websocket.send(...)` on a transport in state t
\* "ok": written; "ConnectionClosed"; "Exception": any other error.
SendResult(t) ==
    IF t = "open" THEN "ok"
    ELSE IF t = "closed" THEN "ConnectionClosed"
    ELSE "Exception"

\* ---------------------------------------------------------------- frames
\* Inbound text frames a client may send.
FrameFull == "{\"content\":\"hi\",\"sender\":\"alice\"}"
FrameEmpty == "{}"
FrameArray == "[1]"
FrameNotJson == "not-json"
Frames == {FrameFull, FrameEmpty, FrameArray, FrameNotJson}

\* A json.loads that takes every frame for JSON
json_loads_NoDecodeError(s) ==
    CASE s = FrameFull -> [kind |-> "dict", val |-> [content |-> "hi", sender |-> "alice"]]
      [] s = FrameEmpty -> [kind |-> "dict", val |-> <<>>]
      [] OTHER -> [kind |-> "list", val |-> <<1>>]

\* json.loads on those frames: a dict, another JSON value, or JSONDecodeError
json_loads(s) ==
    CASE s = FrameFull -> [kind |-> "dict", val |-> [content |-> "hi", sender |-> "alice"]]
      [] s = FrameEmpty -> [kind |-> "dict", val |-> <<>>]
      [] s = FrameArray -> [kind |-> "list", val |-> <<1>>]
      [] OTHER -> [kind |-> "JSONDecodeError", val |-> <<>>]

\* dict.get(key, default)
dict_get(d, key, default) == IF key \in DOMAIN d THEN d[key] ELSE default

\* ------------------------------------------------------------- envelopes
welcome_msg(client_count) ==
    [type |-> "system", message |-> "Connected to server", timestamp |-> "now",
     client_count |-> client_count]

join_msg(client_count) ==
    [type |-> "system", message |-> "New client joined. Total", total |-> client_count,
     timestamp |-> "now"]

left_msg(client_count) ==
    [type |-> "system", message |-> "Client left. Total", total |-> client_count,
     timestamp |-> "now"]

\* A chat envelope whose missing sender is left empty
broadcast_msg_EmptySender(data) ==
    [type |-> "message",
     content |-> dict_get(data, "content", ""),
     sender |-> dict_get(data, "sender", ""),
     timestamp |-> "now"]

broadcast_msg(data) ==
    [type |-> "message",
     content |-> dict_get(data, "content", ""),
     sender |-> dict_get(data, "sender", "anonymous"),
     timestamp |-> "now"]

error_msg == [type |-> "error", message |-> "Invalid message format"]

\* ------------------------------------------------------------------ state
VARIABLES
    connected_clients,  \* the shared set of registered handles
    transport,          \* transport state of every connection
    pc,                 \* where each handle_client coroutine is suspended
    client_count,       \* register_client's local client_count
    message,            \* handle_client's local `message`: the last frame read
    bc,                 \* the broadcast each session is awaiting, if any
    inbox,              \* per connection: the payloads handed to its transport,
                        \* in the order of the send calls (a send hands its
                        \* payload over when it is called, and returns or raises
                        \* later), each with the session whose code sent it (and,
                        \* for a chat envelope, the number of its frame)
    nrecv               \* number of frames the sessions have read so far

vars == <<connected_clients, transport, pc, client_count, message, bc, inbox, nrecv>>

\* Positions of handle_client:
\*  "idle"     not accepted yet
\*  "welcome"  register_client: awaiting websocket.send(welcome_msg)   (l.76)
\*  "join"     register_client: awaiting the join broadcast            (l.79)
\*  "recv"     awaiting the next frame of `async for`                  (l.180)
\*  "chat"     awaiting the broadcast of a chat message                (l.196)
\*  "error"    awaiting websocket.send(error_msg)                      (l.204)
\*  "leave"    unregister_client: awaiting the leave broadcast         (l.97)
\*  "done"     handle_client returned after its finally block
\*  "raised"   handle_client left by an exception of register_client,
\*             which is outside the try: the finally block did not run
PcStates == {"idle", "welcome", "join", "recv", "chat", "error", "leave", "done", "raised"}

\* The session is in its message loop (the spec's Active state)
Active(c) == pc[c] \in {"recv", "chat", "error"}

NoBroadcast == [kind |-> "none"]

\* The position a session resumes at when its broadcast returns
AfterBroadcast(kind) ==
    CASE kind = "join" -> "recv"
      [] kind = "chat" -> "recv"
      [] kind = "leave" -> "done"

Init ==
    /\ connected_clients = {}
    /\ transport = [c \in Clients |-> "none"]
    /\ pc = [c \in Clients |-> "idle"]
    /\ client_count = [c \in Clients |-> 0]
    /\ message = [c \in Clients |-> ""]
    /\ bc = [c \in Clients |-> NoBroadcast]
    /\ inbox = [c \in Clients |-> <<>>]
    /\ nrecv = 0

\* -------------------------------------------------------------- broadcast
\* The elements of a set of handles as a list (the order of the iteration
\* does not matter: gather runs the tasks concurrently)
RECURSIVE SetToSeq(_)
SetToSeq(S) ==
    IF S = {} THEN <<>>
    ELSE LET x == CHOOSE y \in S : \A z \in S : y <= z
         IN <<x>> \o SetToSeq(S \ {x})

Range(q) == {q[i] : i \in DOMAIN q}

\* A filter of send_tasks that excludes nobody
IsNotExcluded_Never(client, exclude) == TRUE

IsNotExcluded(client, exclude) == client # exclude

\* send_tasks: one task per client of the set that is not `exclude`
SendTasks(clients, exclude) ==
    SelectSeq(SetToSeq(clients), LAMBDA client : IsNotExcluded(client, exclude))

\* broadcast() up to its await: returns at once on an empty set or an empty
\* send_tasks, else suspends session c in gather over send_tasks.  `clients`
\* is connected_clients as this step leaves it.
Broadcast(c, kind, msg, exclude, clients) ==
    LET send_tasks == IF clients = {} THEN <<>> ELSE SendTasks(clients, exclude) IN
    IF send_tasks = <<>>
    THEN /\ bc' = [bc EXCEPT ![c] = NoBroadcast]
         /\ pc' = [pc EXCEPT ![c] = AfterBroadcast(kind)]
    ELSE /\ bc' = [bc EXCEPT ![c] =
                     [kind |-> kind, message |-> msg, exclude |-> exclude,
                      registered |-> clients,
                      seq |-> IF kind = "chat" THEN nrecv' ELSE 0,
                      send_tasks |-> send_tasks,
                      outcome |-> [i \in DOMAIN send_tasks |-> "pending"]]]
         /\ pc' = [pc EXCEPT ![c] = kind]

\* Exception handlers that keep a closed connection registered
AfterSend_NeverDiscard(clients, websocket, res) == clients

\* Exception handlers that discard the connection on any failed send
AfterSend_DiscardOnAnyError(clients, websocket, res) ==
    IF res # "ok" THEN clients \ {websocket} ELSE clients

\* send_to_client's exception handlers: connected_clients after a send to
\* `websocket` ended with `res`
AfterSend(clients, websocket, res) ==
    IF res = "ConnectionClosed" THEN clients \ {websocket} ELSE clients

\* BroadcastOutcome of a send that ended with `res`
Outcome(res) ==
    CASE res = "ok" -> "delivered"
      [] res = "ConnectionClosed" -> "closed"
      [] OTHER -> "failed"

\* What the inbox records for a payload of session c's broadcast
Written(c) ==
    IF bc[c].kind = "chat"
    THEN [env |-> bc[c].message, from |-> c, seq |-> bc[c].seq]
    ELSE [env |-> bc[c].message, from |-> c]

\* A fan-out over the live set: a task whose recipient has left
\* connected_clients is not run
SendToClient_SkipsRemoved(c, i) ==
    /\ bc[c].kind # "none"
    /\ i \in DOMAIN bc[c].send_tasks
    /\ bc[c].outcome[i] = "pending"
    /\ bc[c].send_tasks[i] \in connected_clients
    /\ LET websocket == bc[c].send_tasks[i]
           res == SendResult(transport[websocket]) IN
       /\ inbox' = IF res = "ok"
                   THEN [inbox EXCEPT ![websocket] = Append(@, Written(c))]
                   ELSE inbox
       /\ connected_clients' = AfterSend(connected_clients, websocket, res)
       /\ bc' = [bc EXCEPT ![c].outcome[i] = Outcome(res)]
    /\ UNCHANGED <<transport, pc, client_count, message, nrecv>>

\* A broadcast that awaits its sends one after the other, in task order
SendToClient_Sequential(c, i) ==
    /\ bc[c].kind # "none"
    /\ i \in DOMAIN bc[c].send_tasks
    /\ bc[c].outcome[i] = "pending"
    /\ \A j \in 1..(i - 1) : bc[c].outcome[j] # "pending"
    /\ LET websocket == bc[c].send_tasks[i]
           res == SendResult(transport[websocket]) IN
       /\ inbox' = IF res = "ok"
                   THEN [inbox EXCEPT ![websocket] = Append(@, Written(c))]
                   ELSE inbox
       /\ connected_clients' = AfterSend(connected_clients, websocket, res)
       /\ bc' = [bc EXCEPT ![c].outcome[i] = Outcome(res)]
    /\ UNCHANGED <<transport, pc, client_count, message, nrecv>>

\* The i-th send_to_client task of session c's broadcast completes
SendToClient(c, i) ==
    /\ bc[c].kind # "none"
    /\ i \in DOMAIN bc[c].send_tasks
    /\ bc[c].outcome[i] = "pending"
    /\ LET websocket == bc[c].send_tasks[i]
           res == SendResult(transport[websocket]) IN
       /\ inbox' = IF res = "ok"
                   THEN [inbox EXCEPT ![websocket] = Append(@, Written(c))]
                   ELSE inbox
       /\ connected_clients' = AfterSend(connected_clients, websocket, res)
       /\ bc' = [bc EXCEPT ![c].outcome[i] = Outcome(res)]
    /\ UNCHANGED <<transport, pc, client_count, message, nrecv>>

\* gather has collected every result
GatherDone(c) ==
    /\ bc[c].kind # "none"
    /\ \A i \in DOMAIN bc[c].outcome : bc[c].outcome[i] # "pending"

\* A broadcast that reports a failed delivery to the sender of the chat
\* message with an error envelope
BroadcastReturn_ReportsFailure(c) ==
    /\ GatherDone(c)
    /\ LET failed == /\ bc[c].kind = "chat"
                     /\ \E i \in DOMAIN bc[c].outcome : bc[c].outcome[i] # "delivered"
       IN
       /\ pc' = [pc EXCEPT ![c] = IF failed THEN "error" ELSE AfterBroadcast(bc[c].kind)]
       /\ inbox' = IF failed /\ SendResult(transport[c]) = "ok"
                   THEN [inbox EXCEPT ![c] = Append(@, [env |-> error_msg, from |-> c])]
                   ELSE inbox
    /\ bc' = [bc EXCEPT ![c] = NoBroadcast]
    /\ UNCHANGED <<connected_clients, transport, client_count, message, nrecv>>

\* broadcast returns to its caller
BroadcastReturn(c) ==
    /\ GatherDone(c)
    /\ pc' = [pc EXCEPT ![c] = AfterBroadcast(bc[c].kind)]
    /\ bc' = [bc EXCEPT ![c] = NoBroadcast]
    /\ UNCHANGED <<connected_clients, transport, client_count, message, inbox, nrecv>>

\* ------------------------------------------------------------ registration
\* A register_client that counts the set before it adds the handle
Accept_CountBeforeAdd(c) ==
    /\ pc[c] = "idle"
    /\ connected_clients' = connected_clients \cup {c}
    /\ client_count' = [client_count EXCEPT ![c] = Cardinality(connected_clients)]
    /\ transport' = [transport EXCEPT ![c] = "open"]
    /\ inbox' = [inbox EXCEPT ![c] =
                    Append(@, [env |-> welcome_msg(client_count'[c]), from |-> c])]
    /\ pc' = [pc EXCEPT ![c] = "welcome"]
    /\ UNCHANGED <<message, bc, nrecv>>

\* A register_client that adds the handle and suspends before it calls the
\* welcome send
Accept_WelcomeDeferred(c) ==
    /\ pc[c] = "idle"
    /\ connected_clients' = connected_clients \cup {c}
    /\ client_count' = [client_count EXCEPT ![c] = Cardinality(connected_clients \cup {c})]
    /\ transport' = [transport EXCEPT ![c] = "open"]
    /\ pc' = [pc EXCEPT ![c] = "welcome"]
    /\ UNCHANGED <<message, bc, inbox, nrecv>>

\* A connection is accepted: handle_client calls register_client, which adds
\* the handle, counts the set, calls the welcome send and suspends in it.
Accept(c) ==
    /\ pc[c] = "idle"
    /\ connected_clients' = connected_clients \cup {c}
    /\ client_count' = [client_count EXCEPT ![c] = Cardinality(connected_clients \cup {c})]
    /\ transport' = [transport EXCEPT ![c] = "open"]
    /\ inbox' = [inbox EXCEPT ![c] =
                    Append(@, [env |-> welcome_msg(client_count'[c]), from |-> c])]
    /\ pc' = [pc EXCEPT ![c] = "welcome"]
    /\ UNCHANGED <<message, bc, nrecv>>

\* The welcome send completes.  Returned: the join announcement starts.
\* Raised: the exception leaves register_client and handle_client.
WelcomeSend(c) ==
    /\ pc[c] = "welcome"
    /\ IF SendResult(transport[c]) = "ok"
       THEN Broadcast(c, "join", join_msg(client_count[c]), c, connected_clients)
       ELSE /\ pc' = [pc EXCEPT ![c] = "raised"]
            /\ UNCHANGED bc
    /\ UNCHANGED <<connected_clients, transport, client_count, message, inbox, nrecv>>

\* ---------------------------------------------------------- unregistration
\* An unregister_client that announces the departure but keeps the handle
UnregisterClient_NoDiscard(c) ==
    /\ connected_clients' = connected_clients
    /\ Broadcast(c, "leave", left_msg(Cardinality(connected_clients)), None,
                 connected_clients)
    /\ UNCHANGED message

\* An unregister_client that uses `remove`: KeyError on a handle that is
\* no longer in the set, raised out of the finally block
UnregisterClient_Remove(c) ==
    IF c \in connected_clients
    THEN /\ connected_clients' = connected_clients \ {c}
         /\ Broadcast(c, "leave", left_msg(Cardinality(connected_clients \ {c})), None,
                      connected_clients \ {c})
         /\ UNCHANGED message
    ELSE /\ pc' = [pc EXCEPT ![c] = "raised"]
         /\ UNCHANGED <<connected_clients, bc, message>>

\* An unregister_client that empties the registry
UnregisterClient_Clear(c) ==
    /\ connected_clients' = {}
    /\ Broadcast(c, "leave", left_msg(0), None, {})
    /\ UNCHANGED message

\* The finally block: unregister_client discards the handle, counts the set
\* and starts the leave announcement.
UnregisterClient(c) ==
    /\ connected_clients' = connected_clients \ {c}
    /\ Broadcast(c, "leave", left_msg(Cardinality(connected_clients \ {c})), None,
                 connected_clients \ {c})
    /\ UNCHANGED message

\* ------------------------------------------------------------ message loop
\* A loop that does not await the fan-out: the next frame is read while
\* sends of the previous message are pending
Receive_WhileSending(c, frame) ==
    /\ pc[c] \in {"recv", "chat"}
    /\ transport[c] \in {"open", "closed"}
    /\ nrecv < MaxRecv
    /\ nrecv' = nrecv + 1
    /\ message' = [message EXCEPT ![c] = frame]
    /\ LET data == json_loads(frame) IN
       CASE data.kind = "dict" ->
              Broadcast(c, "chat", broadcast_msg(data.val), None, connected_clients)
         [] data.kind = "JSONDecodeError" ->
              /\ pc' = [pc EXCEPT ![c] = "error"]
              /\ bc' = [bc EXCEPT ![c] = NoBroadcast]
         [] OTHER ->
              UNCHANGED <<pc, bc>>
    /\ inbox' = IF /\ json_loads(frame).kind = "JSONDecodeError"
                   /\ SendResult(transport[c]) = "ok"
                THEN [inbox EXCEPT ![c] = Append(@, [env |-> error_msg, from |-> c])]
                ELSE inbox
    /\ UNCHANGED <<connected_clients, transport, client_count>>

\* `async for` yields a frame (one buffered before a close included); the
\* frame is processed up to the next await: the gather of its fan-out, or
\* the send of the error envelope, which is called here.
Receive(c, frame) ==
    /\ pc[c] = "recv"
    /\ transport[c] \in {"open", "closed"}
    /\ nrecv < MaxRecv
    /\ nrecv' = nrecv + 1
    /\ message' = [message EXCEPT ![c] = frame]
    /\ LET data == json_loads(frame) IN
       CASE data.kind = "dict" ->
              Broadcast(c, "chat", broadcast_msg(data.val), None, connected_clients)
         [] data.kind = "JSONDecodeError" ->
              /\ pc' = [pc EXCEPT ![c] = "error"]
              /\ UNCHANGED bc
         [] OTHER ->
              \* data.get raises AttributeError: logged, next frame
              UNCHANGED <<pc, bc>>
    /\ inbox' = IF /\ json_loads(frame).kind = "JSONDecodeError"
                   /\ SendResult(transport[c]) = "ok"
                THEN [inbox EXCEPT ![c] = Append(@, [env |-> error_msg, from |-> c])]
                ELSE inbox
    /\ UNCHANGED <<connected_clients, transport, client_count>>

\* The send of the error envelope completes.  A failure is raised inside the
\* except clause, so it leaves the loop and reaches the finally block.
ErrorSend(c) ==
    /\ pc[c] = "error"
    /\ IF SendResult(transport[c]) = "ok"
       THEN /\ pc' = [pc EXCEPT ![c] = "recv"]
            /\ UNCHANGED <<connected_clients, bc, message>>
       ELSE UnregisterClient(c)
    /\ UNCHANGED <<transport, client_count, inbox, nrecv>>

\* The frame iterator stops: it ends (normal close), raises ConnectionClosed
\* (abnormal close, keepalive timeout) or raises another exception (broken
\* transport).  Each of the three paths reaches the finally block.
Disconnect(c, cause) ==
    /\ pc[c] = "recv"
    /\ IF cause \in CloseCauses THEN transport[c] = "closed" ELSE transport[c] = "broken"
    /\ UnregisterClient(c)
    /\ UNCHANGED <<transport, client_count, inbox, nrecv>>

\* ------------------------------------------------------------- environment
\* The transport of an accepted connection closes
Close(c) ==
    /\ transport[c] \in {"open", "broken"}
    /\ transport' = [transport EXCEPT ![c] = "closed"]
    /\ UNCHANGED <<connected_clients, pc, client_count, message, bc, inbox, nrecv>>

\* The transport of an accepted connection starts failing its I/O
Break(c) ==
    /\ transport[c] = "open"
    /\ transport' = [transport EXCEPT ![c] = "broken"]
    /\ UNCHANGED <<connected_clients, pc, client_count, message, bc, inbox, nrecv>>

Next ==
    \/ \E c \in Clients : Accept(c)
    \/ \E c \in Clients : WelcomeSend(c)
    \/ \E c \in Clients : \E i \in 1..NumClients : SendToClient(c, i)
    \/ \E c \in Clients : BroadcastReturn(c)
    \/ \E c \in Clients : \E frame \in Frames : Receive(c, frame)
    \/ \E c \in Clients : ErrorSend(c)
    \/ \E c \in Clients : \E cause \in StopCauses : Disconnect(c, cause)
    \/ \E c \in Clients : Close(c)
    \/ \E c \in Clients : Break(c)

Spec == Init /\ [][Next]_vars

TypeOK ==
    /\ connected_clients \subseteq Clients
    /\ transport \in [Clients -> TransportStates]
    /\ pc \in [Clients -> PcStates]
    /\ message \in [Clients -> Frames \cup {""}]
    /\ \A c \in Clients : (bc[c].kind # "none") <=> (pc[c] \in {"join", "chat", "leave"})
    /\ \A c \in Clients : bc[c].kind # "none" => bc[c].kind = pc[c]
    /\ \A c \in Clients : pc[c] \in {"chat", "error"} => message[c] # ""

\* ================================================================ claims
\* No register_client, unregister_client, broadcast or direct send is in
\* flight, and no session has a close of its transport still to notice
Settled ==
    \A c \in Clients :
        /\ pc[c] \in {"idle", "recv", "done", "raised"}
        /\ pc[c] = "recv" => transport[c] = "open"

\* handle_client has ended, by return or by exception
HandlerEnded(c) == pc[c] \in {"done", "raised"}

\* unregister_client has run its discard
Unregistered(c) == pc[c] \in {"leave", "done"}

\* Sessions that are open and not yet terminal
OpenSessions == {c \in Clients : transport[c] = "open" /\ ~HandlerEnded(c) /\ pc[c] # "idle"}

\* C1: once nothing is in flight, len(connected_clients) is the number of
\* open, not yet terminal sessions and no handle of an ended session is
\* left in connected_clients.
C1_RegistryMatchesSessions ==
    Settled =>
        /\ Cardinality(connected_clients) = Cardinality(OpenSessions)
        /\ \A c \in connected_clients : ~HandlerEnded(c)

\* C2: whatever point of handle_client a disconnect occurs at after the
\* handle was added, the session runs unregister_client: a handler that has
\* ended has run it, and its handle is absent from connected_clients.
C2_EndedSessionUnregistered ==
    \A c \in Clients : HandlerEnded(c) => Unregistered(c) /\ c \notin connected_clients

\* Number of tasks of session c's broadcast whose recipient is r and whose
\* send was written
Delivered(c, r) ==
    Cardinality({i \in DOMAIN bc[c].send_tasks :
                    bc[c].send_tasks[i] = r /\ bc[c].outcome[i] = "delivered"})

\* Number of tasks of session c's broadcast whose recipient is r
Targeted(c, r) ==
    Cardinality({i \in DOMAIN bc[c].send_tasks : bc[c].send_tasks[i] = r})

\* C3: a broadcast that starts with K registered connections has one task
\* for each of them but the excluded one (K-1 tasks for a join announcement,
\* K for a chat message, the sender included), and once gather is done every
\* recipient whose transport is open has been written to exactly once.
C3_FanOutReachesAllButExcluded ==
    \A c \in Clients : bc[c].kind # "none" =>
        LET K == Cardinality(bc[c].registered) IN
        /\ bc[c].kind = "join" =>
              /\ bc[c].exclude = c
              /\ c \in bc[c].registered
              /\ Len(bc[c].send_tasks) = K - 1
        /\ bc[c].kind = "chat" =>
              /\ Len(bc[c].send_tasks) = K
              /\ c \in bc[c].registered => Targeted(c, c) = 1
        /\ \A r \in Clients :
              Targeted(c, r) = IF r \in bc[c].registered /\ r # bc[c].exclude THEN 1 ELSE 0
        /\ GatherDone(c) =>
              \A r \in Range(bc[c].send_tasks) :
                  transport[r] = "open" => Delivered(c, r) = 1

\* C3 witness: a join announcement and a chat message with two registered
\* connections, both written to every recipient
C3_Witness ==
    \E c, d \in Clients :
        /\ c # d
        /\ GatherDone(c) /\ bc[c].kind = "chat" /\ Cardinality(bc[c].registered) = 2
        /\ Delivered(c, c) = 1 /\ Delivered(c, d) = 1
        /\ \E i \in DOMAIN inbox[c] :
              inbox[c][i] = [env |-> join_msg(2), from |-> d]

\* C4: a recipient whose transport is already closed does not stop the
\* broadcast: every other recipient whose transport is open is written to,
\* the stale connection is out of connected_clients when gather is done, and
\* the broadcast returns to its caller's next position.
C4_StaleRecipientEvicted ==
    [][\A c \in Clients :
          /\ GatherDone(c)' =>
                \A i \in DOMAIN bc'[c].send_tasks :
                    LET r == bc'[c].send_tasks[i] IN
                    /\ bc'[c].outcome[i] = "closed" => r \notin connected_clients'
                    /\ transport'[r] = "open" => bc'[c].outcome[i] = "delivered"
          /\ (GatherDone(c) /\ pc'[c] # pc[c]) =>
                /\ pc'[c] = AfterBroadcast(bc[c].kind)
                /\ bc'[c] = NoBroadcast]_vars

\* C4 witness: gather is done, one recipient was found closed and another
\* was written to
C4_Witness ==
    \E c \in Clients :
        /\ GatherDone(c)
        /\ \E i, j \in DOMAIN bc[c].outcome :
              bc[c].outcome[i] = "closed" /\ bc[c].outcome[j] = "delivered"

Entry(c, env) == [env |-> env, from |-> c]

UnregisterStep(c) ==
    \/ \E cause \in StopCauses : Disconnect(c, cause)
    \/ ErrorSend(c) /\ transport[c] # "open"

IsLeft(e, a) == e.from = a /\ e.env.type = "system" /\ e.env.message = "Client left. Total"

\* Number of 'Client left' envelopes of session a's departure written to b
LeftCount(b, a) == Cardinality({i \in DOMAIN inbox[b] : IsLeft(inbox[b][i], a)})

\* C6: when A disconnects while B is registered and Active, A's leave
\* announcement has one task for B; B is never written two 'Client left'
\* envelopes for A, has exactly one when the announcement's gather is done
\* and B's transport is open, and A is out of connected_clients from the
\* moment unregister_client has run.
C6_OneLeaveAnnouncement ==
    [][\A a, b \in Clients : a # b =>
          /\ (UnregisterStep(a) /\ Active(b) /\ b \in connected_clients) =>
                /\ pc'[a] = "leave"
                /\ Targeted(a, b)' = 1
          /\ LeftCount(b, a)' <= 1
          /\ (GatherDone(a)' /\ bc'[a].kind = "leave" /\ Targeted(a, b)' = 1
                /\ transport'[b] = "open") => LeftCount(b, a)' = 1
          /\ Unregistered(a)' => a \notin connected_clients']_vars

\* C6 witness: B's own broadcast found A closed, A's leave announcement is
\* complete and B, still open, holds one 'Client left' envelope for A
C6_Witness ==
    \E a, b \in Clients :
        /\ a # b
        /\ pc[a] = "leave" /\ GatherDone(a)
        /\ transport[b] = "open" /\ pc[b] = "chat"
        /\ \E i \in DOMAIN bc[b].send_tasks :
              bc[b].send_tasks[i] = a /\ bc[b].outcome[i] = "closed"
        /\ LeftCount(b, a) = 1

\* C7: the chat envelope of a JSON-object frame carries the frame's content
\* and sender ("" and "anonymous" when missing), and when gather is done it
\* has been written once to every other connection that was registered and
\* whose transport is open.
C7_ChatEnvelopeRoundTrip ==
    \A c \in Clients : pc[c] = "chat" =>
        /\ bc[c].kind = "chat"
        /\ bc[c].message.type = "message"
        /\ message[c] = FrameFull =>
              bc[c].message.content = "hi" /\ bc[c].message.sender = "alice"
        /\ message[c] = FrameEmpty =>
              bc[c].message.content = "" /\ bc[c].message.sender = "anonymous"
        /\ message[c] \in {FrameFull, FrameEmpty}
        /\ GatherDone(c) =>
              \A r \in bc[c].registered \ {c} :
                  transport[r] = "open" =>
                      /\ Delivered(c, r) = 1
                      /\ Written(c) \in Range(inbox[r])

\* C7 witness: a frame without content and sender has reached another client
C7_Witness ==
    \E c, r \in Clients :
        /\ c # r
        /\ pc[c] = "chat" /\ GatherDone(c) /\ message[c] = FrameEmpty
        /\ transport[r] = "open"
        /\ \E i \in DOMAIN inbox[r] :
              /\ inbox[r][i].from = c
              /\ inbox[r][i].env.type = "message"
              /\ inbox[r][i].env.content = "" /\ inbox[r][i].env.sender = "anonymous"

\* C8: a broadcast called while connected_clients is empty, or holds only
\* the excluded connection, creates no send task, writes nothing, leaves the
\* set as it is and returns to its caller.
C8_EmptyBroadcastNoOp ==
    [][\A c \in Clients :
          /\ (UnregisterStep(c) /\ connected_clients \ {c} = {}) =>
                /\ pc'[c] = "done"
                /\ bc'[c] = NoBroadcast
                /\ inbox' = inbox
                /\ connected_clients' = {}
          /\ \A frame \in {FrameFull, FrameEmpty} :
                (Receive(c, frame) /\ connected_clients = {}) =>
                    /\ pc'[c] = "recv"
                    /\ bc'[c] = NoBroadcast
                    /\ inbox' = inbox
                    /\ connected_clients' = {}
          /\ (WelcomeSend(c) /\ transport[c] = "open" /\ connected_clients = {c}) =>
                /\ pc'[c] = "recv"
                /\ bc'[c] = NoBroadcast
                /\ inbox' = inbox
                /\ connected_clients' = {c}]_vars

\* C8 witness: a session that joined alone and left alone was written its
\* welcome envelope and nothing else
C8_Witness ==
    \E c \in Clients :
        /\ pc[c] = "done"
        /\ \A d \in Clients \ {c} : pc[d] = "idle"
        /\ inbox[c] = <<Entry(c, welcome_msg(1))>>
        /\ connected_clients = {}

\* C9: registration counts the set right after inserting the handle, the
\* welcome envelope carries that count (at least 1), and the join
\* announcement has a task for every other registered connection and none
\* for the new connection.
C9_WelcomeAndJoin ==
    [][\A c \in Clients :
          /\ Accept(c) =>
                /\ c \in connected_clients'
                /\ client_count'[c] = Cardinality(connected_clients')
                /\ client_count'[c] >= 1
                /\ inbox'[c] = Append(inbox[c],
                       Entry(c, [type |-> "system", message |-> "Connected to server",
                                 timestamp |-> "now", client_count |-> client_count'[c]]))
          /\ (WelcomeSend(c) /\ transport[c] = "open") =>
                /\ pc'[c] = "join" =>
                      /\ Range(bc'[c].send_tasks) = connected_clients \ {c}
                      /\ bc'[c].message.message = "New client joined. Total"
                /\ pc'[c] # "join" => connected_clients \ {c} = {}
          /\ \A i \in DOMAIN inbox'[c] :
                ~(inbox'[c][i].from = c /\ inbox'[c][i].env.type = "system"
                    /\ inbox'[c][i].env.message = "New client joined. Total")]_vars

\* C9 witness: the second connection holds a welcome with client_count 2 and
\* the first one the announcement of that join
C9_Witness ==
    \E c, d \in Clients :
        /\ c # d
        /\ Entry(c, welcome_msg(2)) \in Range(inbox[c])
        /\ Entry(c, join_msg(2)) \in Range(inbox[d])

\* C10 as stated: when gather is done, a recipient whose send failed with
\* ConnectionClosed or with any other error is out of connected_clients.
C10_AnyFailureEvicts ==
    \A c \in Clients : GatherDone(c) =>
        \A i \in DOMAIN bc[c].send_tasks :
            bc[c].outcome[i] \in {"closed", "failed"} =>
                bc[c].send_tasks[i] \notin connected_clients

\* C10 amended: a send that fails with ConnectionClosed evicts its recipient
\* (out of connected_clients when gather is done); a send that fails with
\* any other error leaves connected_clients as it is; neither changes the
\* position of any session, and the broadcast returns to its caller.
C10_ClosedEvictsOtherFailureLogged ==
    [][\A c \in Clients :
          /\ GatherDone(c)' =>
                \A i \in DOMAIN bc'[c].send_tasks :
                    bc'[c].outcome[i] = "closed" =>
                        bc'[c].send_tasks[i] \notin connected_clients'
          /\ \A i \in 1..NumClients :
                SendToClient(c, i) =>
                    /\ pc' = pc
                    /\ bc'[c].outcome[i] = "failed" =>
                          connected_clients' = connected_clients
                    /\ bc'[c].outcome[i] = "closed" =>
                          connected_clients' = connected_clients \ {bc[c].send_tasks[i]}
          /\ BroadcastReturn(c) => pc'[c] = AfterBroadcast(bc[c].kind)]_vars

\* C10 witness: gather is done with one send failed by another error, its
\* recipient still registered, and one send failed by ConnectionClosed
C10_Witness ==
    \E c \in Clients :
        /\ GatherDone(c)
        /\ \E i, j \in DOMAIN bc[c].outcome :
              /\ bc[c].outcome[i] = "failed"
              /\ bc[c].send_tasks[i] \in connected_clients
              /\ bc[c].outcome[j] = "closed"

\* C11 as stated: a step of session c that handles an inbound frame (the
\* read itself, a send of its fan-out, the fan-out's return, the completion
\* of the error-envelope send) takes the session out of Active only if the
\* session's own transport has closed.
C11_MessageNeverEndsSession ==
    [][\A c \in Clients :
          (/\ \/ pc[c] \in {"chat", "error"}
              \/ \E frame \in Frames : Receive(c, frame)
           /\ ~Active(c)')
          => transport[c] = "closed"]_vars

\* Number of error envelopes written to connection s
ErrorCount(s) ==
    Cardinality({i \in DOMAIN inbox[s] : inbox[s][i].env.type = "error"})

\* A send of session s's fan-out to a recipient other than s has failed
FailedToOther(s) ==
    /\ bc[s].kind = "chat"
    /\ \E i \in DOMAIN bc[s].send_tasks :
          /\ bc[s].send_tasks[i] # s
          /\ bc[s].outcome[i] \in {"closed", "failed"}

Hung == 1

\* The scheduling of asyncio.gather: the event loop runs every
\* send_to_client task, and a send completes unless its recipient is the
\* one that hangs
FairSpec ==
    /\ Spec
    /\ \A c \in Clients : \A i \in 1..NumClients :
          WF_vars(SendToClient(c, i) /\ bc[c].send_tasks[i] # Hung)

\* The i-th send of session c's broadcast is pending
Pending(c, i) ==
    /\ bc[c].kind # "none"
    /\ i \in DOMAIN bc[c].send_tasks
    /\ bc[c].outcome[i] = "pending"

\* C13: within one broadcast every send to a recipient other than the
\* hung one eventually completes, whatever the state of the other sends
\* (pending for ever, failed); a send that completes on an open transport
\* writes the message to its recipient; and while any send is pending the
\* broadcast does not return: the session stays where it is, its tasks stay
\* as they are.
C13_HungSendBlocksNoOther ==
    /\ \A c \in Clients : \A i \in 1..NumClients :
          (Pending(c, i) /\ bc[c].send_tasks[i] # Hung) ~> ~Pending(c, i)
    /\ [][\A c \in Clients :
             /\ \A i \in 1..NumClients :
                  (SendToClient(c, i) /\ transport[bc[c].send_tasks[i]] = "open") =>
                      /\ inbox'[bc[c].send_tasks[i]] =
                            Append(inbox[bc[c].send_tasks[i]], Written(c))
                      /\ bc'[c].outcome[i] = "delivered"
             /\ (\E i \in 1..NumClients : Pending(c, i)) =>
                  /\ pc'[c] = pc[c]
                  /\ bc'[c].kind = bc[c].kind
                  /\ bc'[c].send_tasks = bc[c].send_tasks]_vars

\* C13 witness: in one broadcast the send to the hung connection is still
\* pending and the send to the other recipient has been written
C13_Witness ==
    \E c \in Clients : \E i, j \in 1..NumClients :
        /\ Pending(c, i)
        /\ bc[c].send_tasks[i] = Hung
        /\ j \in DOMAIN bc[c].send_tasks
        /\ bc[c].outcome[j] = "delivered"
        /\ Written(c) \in Range(inbox[bc[c].send_tasks[j]])

\* Session c's broadcast builds its send_tasks in this step
BroadcastStarts(c) == bc[c].kind = "none" /\ bc'[c].kind # "none"

\* C14: the tasks of a broadcast are built in one step from
\* connected_clients as it is at that instant, one per handle but the
\* excluded one; while the sends are in flight the tasks stay as built
\* whatever is added to or removed from connected_clients; every pending
\* send can run, its recipient still registered or not; and only a
\* connection that was registered at the start is written to.
C14_RecipientsFixedAtStart ==
    [][\A c \in Clients :
          /\ BroadcastStarts(c) =>
                /\ bc'[c].registered = connected_clients'
                /\ Range(bc'[c].send_tasks) = connected_clients' \ {bc'[c].exclude}
                /\ Len(bc'[c].send_tasks) = Cardinality(Range(bc'[c].send_tasks))
          /\ (bc[c].kind # "none" /\ bc'[c].kind # "none") =>
                /\ bc'[c].send_tasks = bc[c].send_tasks
                /\ bc'[c].registered = bc[c].registered
          /\ \A i \in 1..NumClients :
                /\ Pending(c, i) => ENABLED SendToClient(c, i)
                /\ SendToClient(c, i) =>
                      \A d \in Clients \ (bc[c].registered \ {bc[c].exclude}) :
                          inbox'[d] = inbox[d]
          /\ (bc[c].kind # "none" /\ bc'[c].kind = "none") => GatherDone(c)]_vars

\* C14 witness: while the sends of c's broadcast are in flight, d has been
\* registered and is not among the recipients, and a recipient has been
\* removed from connected_clients with its send still to run
C14_Witness ==
    \E c, d \in Clients : \E i \in 1..NumClients :
        /\ Pending(c, i)
        /\ bc[c].send_tasks[i] \notin connected_clients
        /\ d \in connected_clients \ bc[c].registered
        /\ Targeted(c, d) = 0
        /\ ENABLED SendToClient(c, i)

\* The entry is a chat envelope fanned out by session c
IsChatFrom(e, c) == e.from = c /\ e.env.type = "message"

\* C15: session c reads a frame only when no send of an earlier message of
\* its own is in flight, and in every inbox the chat envelopes of one
\* sender stand in the order in which the sender's frames were read.
C15_SenderOrderKept ==
    [][/\ \A c \in Clients :
             (\E frame \in Frames : Receive(c, frame)) =>
                 /\ bc[c] = NoBroadcast
                 /\ bc'[c] # NoBroadcast => bc'[c].seq = nrecv'
       /\ \A c, r \in Clients : \A i, j \in DOMAIN inbox'[r] :
             (i < j /\ IsChatFrom(inbox'[r][i], c) /\ IsChatFrom(inbox'[r][j], c)) =>
                 inbox'[r][i].seq < inbox'[r][j].seq]_vars

\* C15 witness: a recipient other than the sender holds two different chat
\* envelopes of one sender, the first read first
C15_Witness ==
    \E c, r \in Clients : \E i, j \in DOMAIN inbox[r] :
        /\ c # r
        /\ i < j
        /\ IsChatFrom(inbox[r][i], c) /\ inbox[r][i].seq = 1
        /\ IsChatFrom(inbox[r][j], c) /\ inbox[r][j].seq = 2
        /\ inbox[r][i].env # inbox[r][j].env
        /\ \E k, l \in DOMAIN inbox[c] :
              k < l /\ inbox[c][k] = inbox[r][i] /\ inbox[c][l] = inbox[r][j]

\* A step of session c's disconnect: the finally block, a send of its leave
\* announcement, or the return of that broadcast
DisconnectStep(c) ==
    \/ UnregisterStep(c)
    \/ /\ pc[c] = "leave"
       /\ \/ \E i \in 1..NumClients : SendToClient(c, i)
          \/ BroadcastReturn(c)

\* C16: the disconnect of session c ends session c and no other: through
\* the finally block and every step of the leave announcement each other
\* session stays where it is, with its own broadcast as it was, and each
\* other handle that is registered with an open transport stays registered.
C16_DisconnectEndsOneSession ==
    [][\A c \in Clients :
          /\ UnregisterStep(c) => Unregistered(c)'
          /\ DisconnectStep(c) =>
                \A d \in Clients \ {c} :
                    /\ pc'[d] = pc[d]
                    /\ bc'[d] = bc[d]
                    /\ Active(d) => Active(d)'
                    /\ (d \in connected_clients /\ transport[d] = "open") =>
                          d \in connected_clients']_vars

\* C16 witness: session c has ended and its leave announcement has reached
\* d, which is still Active, open and registered
C16_Witness ==
    \E c, d \in Clients :
        /\ c # d
        /\ pc[c] = "done"
        /\ pc[d] = "recv"
        /\ transport[d] = "open"
        /\ connected_clients = {d}
        /\ LeftCount(d, c) = 1

\* C17: the discard of unregister_client on a handle that send_to_client
\* has already evicted, and the discard of send_to_client on a handle whose
\* session has already unregistered, raise nothing (the finally block goes
\* on to the leave announcement, the task ends with its outcome), and leave
\* connected_clients as it was; a first removal takes out that handle and
\* no other.
C17_RemovalIdempotent ==
    [][\A c \in Clients :
          /\ UnregisterStep(c) =>
                /\ Unregistered(c)'
                /\ connected_clients' = connected_clients \ {c}
                /\ c \notin connected_clients => connected_clients' = connected_clients
          /\ \A d \in Clients : \A i \in 1..NumClients :
                (SendToClient(d, i) /\ bc[d].send_tasks[i] = c) =>
                    /\ pc' = pc
                    /\ bc'[d].outcome[i] # "pending"
                    /\ connected_clients' \in
                          {connected_clients, connected_clients \ {c}}
                    /\ c \notin connected_clients =>
                          connected_clients' = connected_clients]_vars

\* C17 witness: a send to c has failed with ConnectionClosed and c's session
\* has run unregister_client, in either order; the other handle is still
\* registered
C17_Witness ==
    \E c, d \in Clients : \E i \in 1..NumClients :
        /\ c # d
        /\ Unregistered(c)
        /\ bc[d].kind # "none"
        /\ i \in DOMAIN bc[d].send_tasks
        /\ bc[d].send_tasks[i] = c
        /\ bc[d].outcome[i] = "closed"
        /\ connected_clients = {d}

\* C18: a connection that has not been accepted has been sent nothing and
\* is the recipient of no send task; from its accept on, the first payload
\* handed to its transport is its own welcome envelope, whatever other
\* sessions' broadcasts do while the welcome send is awaited.
C18_WelcomeIsFirst ==
    \A c \in Clients :
        /\ pc[c] = "idle" =>
              /\ inbox[c] = <<>>
              /\ c \notin connected_clients
              /\ \A d \in Clients : bc[d].kind # "none" => Targeted(d, c) = 0
        /\ pc[c] # "idle" =>
              /\ inbox[c] # <<>>
              /\ inbox[c][1] = Entry(c, welcome_msg(client_count[c]))
        /\ \A i \in DOMAIN inbox[c] :
              (i > 1 /\ inbox[c][i].from = c) => inbox[c][i].env.type # "system"

\* C18 witness: while c's welcome send is still awaited, a payload of
\* another session's broadcast has been sent to c, after the welcome
C18_Witness ==
    \E c, d \in Clients :
        /\ c # d
        /\ pc[c] = "welcome"
        /\ Len(inbox[c]) >= 2
        /\ inbox[c][1] = Entry(c, welcome_msg(client_count[c]))
        /\ inbox[c][2].from = d

\* C19 as stated: the total of a join announcement is the size of
\* connected_clients at the instant its fan-out starts.
C19_JoinTotalIsSizeAtFanOut ==
    [][\A c \in Clients :
          (WelcomeSend(c) /\ pc'[c] = "join") =>
              bc'[c].message.total = Cardinality(connected_clients')]_vars

\* C20: once a session has run the discard of unregister_client its handle
\* is out of connected_clients and stays out, the session stays
\* unregistered, and no broadcast that starts from then on (its own leave
\* announcement included) has a send task for that handle.
C20_NoSendAfterUnregister ==
    [][\A c \in Clients :
          /\ Unregistered(c) => Unregistered(c)'
          /\ Unregistered(c)' => c \notin connected_clients'
          /\ c \in connected_clients' \ connected_clients => pc[c] = "idle"
          /\ \A d \in Clients :
                (BroadcastStarts(d) /\ Unregistered(c)') => Targeted(d, c)' = 0]_vars

\* C20 witness: the leave announcement of c is in flight with a send task
\* for the other connection and none for c
C20_Witness ==
    \E c, d \in Clients :
        /\ c # d
        /\ pc[c] = "leave"
        /\ bc[c].registered = {d}
        /\ Targeted(c, d) = 1
        /\ Targeted(c, c) = 0
        /\ c \notin connected_clients

====
